---- MODULE Spec2Model ----
(***************************************************************************)
(* A model of bayessb's report package: the process-wide reporter registry *)
(* (reporter_dict and the reporter decorator), the construction of a       *)
(* Report (module expansion, header, the per-group load / pool / run loop, *)
(* the transpose) and the four renderers of the results grid.              *)
(***************************************************************************)
EXTENDS Integers, Sequences, FiniteSets, TLC

\* ------------------------------------------------------------------ bounds
MaxDecl == 2        \* Spec: reporter declarations per process
RegReporters == 1   \* Spec: length of the reporters argument of Report()
RegFiles == 1       \* Spec: chain files per group
MaxReporters == 2   \* SpecReport: length of the reporters argument of Report()
MaxFiles == 2       \* SpecReport: chain files per group
StubSteps == 5      \* options.nsteps of a stub chain file

\* ------------------------------------------------------------ the universe
None == "None"                               \* Python's None
Modules == {"bayessb.report", "user"}        \* modules that declare reporters
Funcs == {"num_chains", "maximum_likelihood", "custom"}
DisplayNames == {"n1", "n2"}                 \* name strings given to @reporter
Groups == {"A", "B"}                         \* keys of chain_filenames
Label(g) == "label " \o g                    \* a caller-supplied column name
LabelGroup(l) == CHOOSE g \in Groups : Label(g) = l
ListIds == Modules \cup {"self"}             \* identities of the list objects
Filenames == {"out.html", "/no/such/dir/out"}

ismodule(x) == x \in Modules
callable(x) == x \in Funcs
getmodule(f) == IF f = "custom" THEN "user" ELSE "bayessb.report"

VARIABLES
    reporter_dict,   \* module name -> the list object registered for it, or None
    heap,            \* list object -> its elements (function references)
    reporter_name,   \* function -> its reporter_name attribute, or None
    declared,        \* history: module -> the declarations made in it, in order
    pc,              \* "idle", "groups", "load", "run", "done", "failed"
    exc,             \* the exception the last operation raised, or None
    arg_reporters,   \* __init__'s reporters argument while __init__ runs
    chain_filenames, \* self.chain_filenames, in the dict's iteration order
    self_reporters,  \* self.reporters: a reference to a list object
    header_names,    \* self.header_names
    results,         \* self.results
    gi,              \* position of the loop of line 62 in chain_filenames
    mcmc_list,       \* the chains loaded so far for the current group
    mcmc_set,        \* the pooled chain-set of the current group, or None
    result,          \* the column being filled for the current group
    trace,           \* history: what the current construction did, in order
    fresh,           \* history: the Report as __init__ left it
    out              \* what the last successful render returned or wrote

vars == <<reporter_dict, heap, reporter_name, declared, pc, exc, arg_reporters,
          chain_filenames, self_reporters, header_names, results, gi,
          mcmc_list, mcmc_set, result, trace, fresh, out>>

registry == <<reporter_dict, heap, reporter_name, declared>>
report == <<chain_filenames, self_reporters, header_names, results>>
locals == <<arg_reporters, gi, mcmc_list, mcmc_set, result>>

\* ------------------------------------------------------------- the registry
NDeclared == Len(declared["bayessb.report"]) + Len(declared["user"])

\* a wrap that keeps one entry per function: a re-declaration is not appended
wrap_once(name, f, rd, hp, rn) ==
    LET m == getmodule(f)
        rd1 == IF rd[m] = None THEN [rd EXCEPT ![m] = m] ELSE rd
        hp1 == IF rd[m] = None THEN [hp EXCEPT ![m] = <<>>] ELSE hp
    IN [raised |-> None,
        reporter_dict |-> rd1,
        heap |-> [hp1 EXCEPT ![rd1[m]] =
                     IF \E i \in DOMAIN @ : @[i] = f THEN @ ELSE Append(@, f)],
        reporter_name |-> [rn EXCEPT ![f] = name]]

\* reporter.wrap: setdefault, append, then tag the function with the name
wrap(name, f, rd, hp, rn) ==
    LET m == getmodule(f)
        rd1 == IF rd[m] = None THEN [rd EXCEPT ![m] = m] ELSE rd
        hp1 == IF rd[m] = None THEN [hp EXCEPT ![m] = <<>>] ELSE hp
    IN [raised |-> None,
        reporter_dict |-> rd1,
        heap |-> [hp1 EXCEPT ![rd1[m]] = Append(@, f)],
        reporter_name |-> [rn EXCEPT ![f] = name]]

\* a decorator that forgets to reject a callable given as the name
reporter_unchecked(name, f, rd, hp, rn) == wrap(name, f, rd, hp, rn)

\* reporter(name)(f), the whole of "@reporter(name) def f"
reporter(name, f, rd, hp, rn) ==
    IF callable(name)
    THEN [raised |-> "TypeError", reporter_dict |-> rd, heap |-> hp,
          reporter_name |-> rn]
    ELSE wrap(name, f, rd, hp, rn)

Declare ==
    /\ pc \in {"idle", "done", "failed"}
    /\ NDeclared < MaxDecl
    /\ \E name \in DisplayNames \cup Funcs, f \in Funcs :
         LET r == reporter(name, f, reporter_dict, heap, reporter_name) IN
         /\ reporter_dict' = r.reporter_dict
         /\ heap' = r.heap
         /\ reporter_name' = r.reporter_name
         /\ exc' = r.raised
         /\ declared' = IF callable(name) THEN declared
                        ELSE [declared EXCEPT ![getmodule(f)] =
                                 Append(@, [f |-> f, name |-> name])]
    /\ UNCHANGED <<pc, report, locals, trace, fresh, out>>

\* --------------------------------------------------- Report construction
SeqsUpTo(S, n) == UNION {[1..k -> S] : k \in 0..n}
Range(s) == {s[i] : i \in DOMAIN s}
Injective(s) == \A i, j \in DOMAIN s : s[i] = s[j] => i = j

\* a dict {group name: list of chain filenames}, as its iteration order
ChainDict(d) ==
    [k \in DOMAIN d |->
        [name |-> d[k][1], files |-> [i \in 1..d[k][2] |-> <<d[k][1], i>>]]]
ChainDicts(maxFiles) ==
    {ChainDict(d) : d \in {e \in SeqsUpTo(Groups \X (0..maxFiles), Cardinality(Groups)) :
                              Injective([k \in DOMAIN e |-> e[k][1]])}}
keys(d) == [k \in DOMAIN d |-> d[k].name]
\* the names argument: None (NoNames), or one label per group in the caller's order
NoNames == <<None>>
NamesFor(d) ==
    {NoNames} \cup {s \in [DOMAIN d -> {Label(g) : g \in Range(keys(d))}] : Injective(s)}

\* "self.reporters = lst" when nothing was collected yet: the Report would
\* share the registry's list object
ExtendWithAlias(ref, hp, lst) ==
    IF hp[ref] = <<>> THEN [ref |-> lst, heap |-> hp]
    ELSE [ref |-> ref, heap |-> [hp EXCEPT ![ref] = @ \o hp[lst]]]

\* "self.reporters += lst"
ExtendWith(ref, hp, lst) ==
    [ref |-> ref, heap |-> [hp EXCEPT ![ref] = @ \o hp[lst]]]

\* lines 44-47: one pass of the loop that unpacks modules into self.reporters
ExpandOne(r, ref, hp, rd) ==
    IF ismodule(r)
    THEN IF rd[r] = None
         THEN [raised |-> "KeyError", ref |-> ref, heap |-> hp]
         ELSE [raised |-> None] @@ ExtendWith(ref, hp, rd[r])
    ELSE [raised |-> None, ref |-> ref, heap |-> [hp EXCEPT ![ref] = Append(@, r)]]

\* a str object, as a cell of the grid (it has no value or link attribute)
Str(s) == [str |-> s]
hasattr(o, a) == a \in DOMAIN o

\* line 60
ReporterNames(rs, rn) == [i \in DOMAIN rs |-> Str(rn[rs[i]])]

\* lines 50-57
HeaderNames(d, names) == <<"">> \o (IF names = NoNames THEN keys(d) ELSE names)

NoSet == [name |-> None, nchains |-> 0, burn |-> 0]   \* no chain-set resident
NoReport == [built |-> FALSE]                        \* no Report was returned
NoOutput == [renderer |-> None]                      \* nothing rendered yet

Event(e, g, i, err) == [ev |-> e, group |-> g, i |-> i, err |-> err]

\* an exception leaves __init__: the caller gets no Report, and the object
\* under construction is garbage
Abort(e) ==
    /\ pc' = "failed"
    /\ exc' = e
    /\ heap' = [heap EXCEPT !["self"] = <<>>]    \* its list is garbage
    /\ chain_filenames' = <<>>
    /\ self_reporters' = "self"
    /\ header_names' = <<>>
    /\ results' = <<>>
    /\ arg_reporters' = <<>>
    /\ gi' = 0
    /\ mcmc_list' = <<>>
    /\ mcmc_set' = NoSet
    /\ result' = <<>>
    /\ fresh' = NoReport
    /\ out' = NoOutput

\* Report(chain_filenames, reporters, names), lines 39-42
Construct(maxFiles) ==
    /\ pc \in {"idle", "failed"}
    /\ \E d \in ChainDicts(maxFiles) : chain_filenames' = d
    /\ self_reporters' = "self"
    /\ heap' = [heap EXCEPT !["self"] = <<>>]
    /\ arg_reporters' = <<>>
    /\ pc' = "expand"
    /\ exc' = None
    /\ trace' = <<>>
    /\ UNCHANGED <<reporter_dict, reporter_name, declared, header_names, results,
                   gi, mcmc_list, mcmc_set, result, fresh, out>>

\* lines 43-47, one element of the reporters argument per pass; the model
\* draws each element of the caller's list when the loop reaches it
ExpandStep(maxReporters) ==
    /\ pc = "expand"
    /\ Len(arg_reporters) < maxReporters
    /\ \E r \in Modules \cup Funcs :
         LET e == ExpandOne(r, self_reporters, heap, reporter_dict) IN
         /\ IF e.raised # None THEN Abort(e.raised)
            ELSE /\ heap' = e.heap
                 /\ self_reporters' = e.ref
                 /\ arg_reporters' = Append(arg_reporters, r)
                 /\ UNCHANGED <<pc, exc, chain_filenames, header_names, results,
                                gi, mcmc_list, mcmc_set, result, fresh, out>>
    /\ UNCHANGED <<reporter_dict, reporter_name, declared, trace>>

\* lines 49-61: names, header_names, and the row of reporter names
InitNames ==
    /\ pc = "expand"
    /\ \E names \in NamesFor(chain_filenames) :
         LET rs == heap[self_reporters] IN
         IF \E i \in DOMAIN rs : reporter_name[rs[i]] = None
         THEN Abort("AttributeError")
         ELSE /\ header_names' = HeaderNames(chain_filenames, names)
              /\ results' = <<ReporterNames(rs, reporter_name)>>
              /\ pc' = "groups"
              /\ gi' = 1
              /\ arg_reporters' = <<>>      \* the argument is not read again
              /\ UNCHANGED <<heap, exc, chain_filenames, self_reporters,
                             mcmc_list, mcmc_set, result, fresh, out>>
    /\ UNCHANGED <<reporter_dict, reporter_name, declared, trace>>

\* ------------------------------------------------- the reporter functions
\* Result(value, link); by and on are history: who computed it, on what
Result(value, link, f, set) == [value |-> value, link |-> link, by |-> f, on |-> set.name]
PyInt(n) == [type |-> "int", n |-> n]
PyFloat(milli) == [type |-> "float", milli |-> milli]     \* in thousandths
PyBool(b) == [type |-> "bool", b |-> b]

\* what calling reporter f on a chain-set can do: return a Result, or raise.
\* num_chains and maximum_likelihood are those of bayessb/report.py, on stub
\* chains that carry a fit_plotting_function; custom is a caller's reporter
Call(f, set) ==
    CASE f = "num_chains" ->
           {[raised |-> None, result |-> Result(PyInt(set.nchains), None, f, set)]}
      [] f = "maximum_likelihood" ->
           {[raised |-> None,
             result |-> Result(PyFloat(3141 + set.nchains),
                               set.name \o "_max_likelihood_plot.png", f, set)]}
      [] OTHER ->
           {[raised |-> "ValueError", result |-> Result(PyBool(FALSE), None, f, set)],
            [raised |-> None, result |-> Result(PyBool(TRUE), "", f, set)]}

\* ----------------------------------------- get_results_for_chain_set, 68-90
chain_list_name == chain_filenames[gi].name
chain_list == chain_filenames[gi].files

\* lines 62-63 and 75-79: the next group of the dict; its MCMCSet, still empty
BeginGroup ==
    /\ pc = "groups"
    /\ gi <= Len(chain_filenames)
    /\ mcmc_set' = [name |-> chain_list_name, nchains |-> 0, burn |-> 0]
    /\ mcmc_list' = <<>>
    /\ pc' = "load"
    /\ UNCHANGED <<registry, report, exc, arg_reporters, gi, result, trace, fresh, out>>

\* the loop of lines 80-81 has loaded every file of the group
AllLoaded(ml, cl) == Len(ml) = Len(cl)

\* line 81: pickle.load(open(filename)); the file may be missing or corrupt
LoadFile ==
    /\ pc = "load"
    /\ ~AllLoaded(mcmc_list, chain_list)
    /\ LET i == Len(mcmc_list) + 1 IN
       \/ /\ mcmc_list' = Append(mcmc_list, [file |-> chain_list[i], nsteps |-> StubSteps])
          /\ trace' = Append(trace, Event("load", chain_list_name, i, None))
          /\ UNCHANGED <<heap, report, exc, arg_reporters, gi, mcmc_set, result, pc,
                         fresh, out>>
       \/ /\ trace' = Append(trace, Event("raise", chain_list_name, i, "IOError"))
          /\ Abort("IOError")
    /\ UNCHANGED <<reporter_dict, reporter_name, declared>>

\* line 84: initialize_and_pool(mcmc_list, mcmc_list[0].options.nsteps / 2)
Pool ==
    /\ pc = "load"
    /\ AllLoaded(mcmc_list, chain_list)
    /\ IF mcmc_list = <<>>
       THEN /\ Abort("IndexError")
            /\ UNCHANGED trace
       ELSE /\ mcmc_set' = [name |-> chain_list_name, nchains |-> Len(mcmc_list),
                            burn |-> mcmc_list[1].nsteps \div 2]
            /\ result' = <<>>
            /\ pc' = "run"
            /\ trace' = Append(trace, Event("pool", chain_list_name, Len(mcmc_list), None))
            /\ UNCHANGED <<heap, report, exc, arg_reporters, gi, mcmc_list, fresh, out>>
    /\ UNCHANGED <<reporter_dict, reporter_name, declared>>

\* a loop over the reporters from the last to the first
NextReporterReversed(rs, res) == rs[Len(rs) - Len(res)]

\* the reporter the loop of line 88 reaches once res holds the earlier results
NextReporter(rs, res) == rs[Len(res) + 1]

\* a loop that catches a reporter's exception and keeps going
AfterCallSwallow(o, res) == [raised |-> None, result |-> Append(res, o.result)]

\* what line 89 does with the outcome of a call: an exception is not caught
AfterCall(o, res) ==
    IF o.raised # None THEN [raised |-> o.raised, result |-> res]
    ELSE [raised |-> None, result |-> Append(res, o.result)]

\* line 89: result.append(reporter(mcmc_set))
RunReporter ==
    /\ pc = "run"
    /\ Len(result) < Len(heap[self_reporters])
    /\ LET k == Len(result) + 1
           f == NextReporter(heap[self_reporters], result)
       IN \E o \in Call(f, mcmc_set) :
            LET a == AfterCall(o, result) IN
            /\ trace' = Append(trace, Event(IF o.raised = None THEN "call" ELSE "raise",
                                            mcmc_set.name, k, o.raised) @@ [f |-> f])
            /\ IF a.raised # None THEN Abort(a.raised)
               ELSE /\ result' = a.result
                    /\ UNCHANGED <<heap, report, exc, arg_reporters, gi, mcmc_list,
                                   mcmc_set, pc, fresh, out>>
    /\ UNCHANGED <<reporter_dict, reporter_name, declared>>

\* line 90, and the return: the group's chains are no longer referenced
AppendColumn ==
    /\ pc = "run"
    /\ Len(result) = Len(heap[self_reporters])
    /\ results' = Append(results, result)
    /\ gi' = gi + 1
    /\ mcmc_list' = <<>>
    /\ mcmc_set' = NoSet
    /\ result' = <<>>
    /\ pc' = "groups"
    /\ UNCHANGED <<registry, chain_filenames, self_reporters, header_names, exc,
                   arg_reporters, trace, fresh, out>>

\* the transpose forgotten
zip_missing(lists) == lists

Min(S) == CHOOSE x \in S : \A y \in S : x <= y
\* zip(*lists) of Python 2: a list of tuples, as long as the shortest list
zip(lists) ==
    IF lists = <<>> THEN <<>>
    ELSE [i \in 1..Min({Len(lists[j]) : j \in DOMAIN lists}) |->
            [j \in DOMAIN lists |-> lists[j][i]]]

\* the Report a caller holds
Snapshot(cf, rs, hn, res) ==
    [built |-> TRUE, chain_filenames |-> cf, reporters |-> rs,
     header_names |-> hn, results |-> res]

\* line 66, and __init__ returns
Transpose ==
    /\ pc = "groups"
    /\ gi > Len(chain_filenames)
    /\ results' = zip(results)
    /\ pc' = "done"
    /\ arg_reporters' = <<>>
    /\ gi' = 0
    /\ fresh' = Snapshot(chain_filenames, heap[self_reporters], header_names, results')
    /\ UNCHANGED <<registry, chain_filenames, self_reporters, header_names, exc,
                   mcmc_list, mcmc_set, result, trace, out>>

\* the caller drops the Report
Discard ==
    /\ pc = "done"
    /\ pc' = "idle"
    /\ chain_filenames' = <<>>
    /\ header_names' = <<>>
    /\ results' = <<>>
    /\ fresh' = NoReport
    /\ out' = NoOutput
    /\ exc' = None
    /\ trace' = <<>>
    /\ heap' = [heap EXCEPT !["self"] = <<>>]         \* its list is garbage
    /\ UNCHANGED <<reporter_dict, reporter_name, declared, self_reporters, locals>>

\* ------------------------------------------------------------ the renderers
\* str(value): an int or a float prints every digit it holds, a bool its name
PyStr(v) ==
    CASE v.type = "int" -> [decimal |-> v.n, places |-> 0]
      [] v.type = "float" -> [decimal |-> v.milli, places |-> 3]
      [] OTHER -> Str(IF v.b THEN "True" ELSE "False")

\* '%-.2f' % value: two decimal places, rounded
Format2f(v) == [decimal |-> (v.milli + 5) \div 10, places |-> 2]

\* "<a href='%s'>%s</a>" % (link, body)
Anchor(link, body) == [a_href |-> link, body |-> body]

\* lines 97-98
TextCell(r) == IF hasattr(r, "value") THEN r.value ELSE r

\* "if result.link:" in place of "is None": an empty link counts as absent
HtmlCellTruthy(r) ==
    IF hasattr(r, "link")
    THEN IF r.link = None \/ r.link = "" THEN r.value
         ELSE [a_href |-> r.link, body |-> PyStr(r.value)]
    ELSE r

\* lines 135-143
HtmlCell(r) ==
    IF hasattr(r, "link")
    THEN IF r.link = None THEN r.value ELSE Anchor(r.link, PyStr(r.value))
    ELSE r

\* lines 176-184
FormatValue(v) ==
    IF v.type = "float" THEN Format2f(v)
    ELSE IF v.type = "bool" THEN Str(IF v.b THEN "True" ELSE "False")
    ELSE PyStr(v)

\* lines 174-193
LinksCell(r) ==
    IF hasattr(r, "link")
    THEN IF r.link = None THEN FormatValue(r.value)
         ELSE Anchor(r.link, FormatValue(r.value))
    ELSE r

\* "for row in self.results: for result in row", for each renderer's cell
TextCells(res) == [i \in DOMAIN res |-> [j \in DOMAIN res[i] |-> TextCell(res[i][j])]]
PdfCells(res) == [i \in DOMAIN res |-> [j \in DOMAIN res[i] |-> res[i][j]]]
HtmlCells(res) == [i \in DOMAIN res |-> [j \in DOMAIN res[i] |-> HtmlCell(res[i][j])]]
LinksCells(res) == [i \in DOMAIN res |-> [j \in DOMAIN res[i] |-> LinksCell(res[i][j])]]
Table(kind, hn, rows) == [renderer |-> kind, header |-> hn, rows |-> rows]

\* open(filename, 'wb')
CanOpen(filename) == filename = "out.html"

\* a renderer that uses the grid up, as it would an iterator
get_text_table_consuming(hn, res) ==
    [raised |-> None,
     table |-> [renderer |-> "text", header |-> hn,
                rows |-> [i \in DOMAIN res |-> [j \in DOMAIN res[i] |-> TextCell(res[i][j])]]],
     results |-> <<>>]

\* each renderer gives what it raised, the table it returned or wrote, and
\* self.results as it leaves it
get_text_table(hn, res) ==
    [raised |-> None, table |-> Table("text", hn, TextCells(res)), results |-> res]

write_pdf_table(hn, res, filename) ==
    IF CanOpen(filename)
    THEN [raised |-> None, table |-> Table("pdf", hn, PdfCells(res)), results |-> res]
    ELSE [raised |-> "IOError", table |-> NoOutput, results |-> res]

write_html_table(hn, res, filename) ==
    IF CanOpen(filename)
    THEN [raised |-> None, table |-> Table("html", hn, HtmlCells(res)), results |-> res]
    ELSE [raised |-> "IOError", table |-> NoOutput, results |-> res]

write_html_table_with_links(hn, res, filename) ==
    IF CanOpen(filename)
    THEN [raised |-> None, table |-> Table("links", hn, LinksCells(res)), results |-> res]
    ELSE [raised |-> "IOError", table |-> NoOutput, results |-> res]

\* the caller's view of a render: a failed one leaves the earlier output
Rendered(r) ==
    /\ pc = "done"
    /\ results' = r.results
    /\ exc' = r.raised
    /\ out' = IF r.raised = None THEN r.table ELSE out
    /\ UNCHANGED <<registry, chain_filenames, self_reporters, header_names, pc,
                   locals, trace, fresh>>

GetTextTable == Rendered(get_text_table(header_names, results))
WritePdfTable ==
    \E filename \in Filenames : Rendered(write_pdf_table(header_names, results, filename))
WriteHtmlTable ==
    \E filename \in Filenames : Rendered(write_html_table(header_names, results, filename))
WriteHtmlTableWithLinks ==
    \E filename \in Filenames :
        Rendered(write_html_table_with_links(header_names, results, filename))

NoReportState ==
    /\ pc = "idle"
    /\ exc = None
    /\ arg_reporters = <<>>
    /\ chain_filenames = <<>>
    /\ self_reporters = "self"
    /\ header_names = <<>>
    /\ results = <<>>
    /\ gi = 0
    /\ mcmc_list = <<>>
    /\ mcmc_set = NoSet
    /\ result = <<>>
    /\ trace = <<>>
    /\ fresh = NoReport
    /\ out = NoOutput

\* the package is imported: reporter_dict = {} (line 8), nothing declared yet
Init ==
    /\ reporter_dict = [m \in Modules |-> None]
    /\ heap = [l \in ListIds |-> <<>>]
    /\ reporter_name = [f \in Funcs |-> None]
    /\ declared = [m \in Modules |-> <<>>]
    /\ NoReportState

\* the registry and the construction of Reports
Next ==
    \/ Declare
    \/ Construct(RegFiles)
    \/ ExpandStep(RegReporters)
    \/ InitNames
    \/ BeginGroup
    \/ LoadFile
    \/ Pool
    \/ RunReporter
    \/ AppendColumn
    \/ Transpose
    \/ Discard

Spec == Init /\ [][Next]_vars

\* the registry once the reporter modules are imported: bayessb/report.py
\* declared num_chains and maximum_likelihood, the caller's module custom
Imported ==
    LET a == reporter("n1", "num_chains", [m \in Modules |-> None],
                      [l \in ListIds |-> <<>>], [f \in Funcs |-> None])
        b == reporter("n2", "maximum_likelihood", a.reporter_dict, a.heap,
                      a.reporter_name)
    IN reporter("n1", "custom", b.reporter_dict, b.heap, b.reporter_name)

InitReport ==
    /\ reporter_dict = Imported.reporter_dict
    /\ heap = Imported.heap
    /\ reporter_name = Imported.reporter_name
    /\ declared = [m \in Modules |->
                     [i \in DOMAIN heap[m] |->
                        [f |-> heap[m][i], name |-> reporter_name[heap[m][i]]]]]
    /\ NoReportState

\* the construction of Reports and their rendering, all reporters declared
NextReport ==
    \/ Construct(MaxFiles)
    \/ ExpandStep(MaxReporters)
    \/ InitNames
    \/ BeginGroup
    \/ LoadFile
    \/ Pool
    \/ RunReporter
    \/ AppendColumn
    \/ Transpose
    \/ Discard
    \/ GetTextTable
    \/ WritePdfTable
    \/ WriteHtmlTable
    \/ WriteHtmlTableWithLinks

SpecReport == InitReport /\ [][NextReport]_vars

\* ------------------------------------------------------------- the claims
Last(sq) == sq[Len(sq)]
IsPrefix(a, b) == Len(a) <= Len(b) /\ \A i \in DOMAIN a : a[i] = b[i]
IsResult(c) == hasattr(c, "link")
IsAnchor(c) == hasattr(c, "a_href")
Constructing == {"expand", "groups", "load", "run"}
R == heap[self_reporters]       \* the Report's expanded reporter list
G == Len(chain_filenames)       \* the number of groups

\* the shape of a grid for the reporter list R and the G groups
GridShape ==
    /\ Len(results) = Len(R)
    /\ \A i \in DOMAIN results :
         /\ Len(results[i]) = G + 1
         /\ results[i][1] = Str(reporter_name[R[i]])
         /\ \A j \in 2..(G + 1) : IsResult(results[i][j]) /\ results[i][j].by = R[i]

\* C1: when __init__ returns, the grid has |R| rows of |G|+1 entries, and row i
\* is the display name of R[i] followed only by Results that R[i] produced.
C1_GridShape == [][pc # "done" /\ pc' = "done" => GridShape']_vars

C1_Witness ==
    /\ pc = "done"
    /\ Len(results) = 2
    /\ G = 2
    /\ R[1] # R[2]
    /\ results[1][1] # results[2][1]

\* the group a header label stands for: a key is its own label
GroupOf(h) == IF h \in Groups THEN h ELSE LabelGroup(h)

HeaderMatchesColumns ==
    /\ Len(header_names) = G + 1
    /\ header_names[1] = ""
    /\ \A j \in 1..G :
         /\ GroupOf(header_names[j + 1]) = chain_filenames[j].name
         /\ \A i \in DOMAIN results : results[i][j + 1].on = chain_filenames[j].name

\* C2: in a constructed Report the header is [''] and one name per group, and
\* header position j+1 names the group whose Results fill column j+1, with the
\* default names and with names the caller supplies.
C2_HeaderMatchesColumns == pc = "done" => HeaderMatchesColumns

\* what the declarations made so far say an element of the argument expands to
ExpansionOf(r) ==
    IF ismodule(r) THEN [i \in DOMAIN declared[r] |-> declared[r][i].f] ELSE <<r>>
RECURSIVE Expected(_)
Expected(reporters) ==
    IF reporters = <<>> THEN <<>>
    ELSE ExpansionOf(Head(reporters)) \o Expected(Tail(reporters))

ExpansionRaised == pc = "expand" /\ pc' = "failed" /\ exc' = "KeyError"

\* C3 as stated: every element of the argument expands, a module to exactly the
\* reporters declared in it, in declaration order, one entry per declaration,
\* a plain reporter to itself, each at its place.
C3_ExpansionAlways ==
    [][/\ pc' = "expand" => R' = Expected(arg_reporters')
       /\ ~ExpansionRaised]_vars

\* C3, the part that holds: the elements expanded so far give exactly the
\* declared reporters of each module, in declaration order, one entry per
\* declaration, and each plain reporter, at their places; the expansion raises
\* KeyError only when some module has no declared reporter.
C3_Expansion ==
    [][/\ pc' = "expand" => R' = Expected(arg_reporters')
       /\ ExpansionRaised => \E m \in Modules : declared[m] = <<>>]_vars

C3_Witness ==
    /\ pc = "expand"
    /\ arg_reporters = <<"bayessb.report">>
    /\ R = <<"maximum_likelihood", "num_chains">>

\* C4: a callable given as the name raises TypeError and nothing else happens:
\* the registry and every function's reporter_name stay as they were, and no
\* function ever carries a callable as its name.
C4_CallableNameRejected ==
    [][/\ exc' = "TypeError" => UNCHANGED <<reporter_dict, heap, reporter_name>>
       /\ \A f \in Funcs : ~callable(reporter_name'[f])]_vars

C4_Witness == exc = "TypeError" /\ NDeclared = 1 /\ pc = "idle"

\* C5: once a chain file fails to load or a reporter raises, nothing more of
\* the construction runs, no Report is returned, and the caller sees that error.
C5_FailureAborts ==
    [][/\ \A i \in DOMAIN trace' :
            trace'[i].ev = "raise" =>
                i = Len(trace') /\ pc' = "failed" /\ fresh' = NoReport
       /\ trace' # trace /\ trace' # <<>> /\ Last(trace').ev = "raise"
            => exc' = Last(trace').err]_vars

C5_Witness ==
    /\ pc = "failed"
    /\ Len(trace) > 3
    /\ Last(trace).ev = "raise"
    /\ trace[1].group # Last(trace).group
    /\ \E i \in DOMAIN trace : trace[i].ev = "call"

\* the cell a renderer makes of a Result it does not wrap
Bare(kind, r) == IF kind = "links" THEN FormatValue(r.value) ELSE r.value
\* the text a renderer wraps in the anchor
Body(kind, r) == IF kind = "links" THEN FormatValue(r.value) ELSE PyStr(r.value)

NonEmpty(link) == link # None /\ link # ""
NotNone(link) == link # None

\* the cells of the last render, when the links that are wrapped are the
\* non-empty ones (nonEmpty) or all but None
CellsAsClaimed(nonEmpty) ==
    \A i \in DOMAIN results : \A j \in DOMAIN results[i] :
        LET r == results[i][j]
            c == out.rows[i][j]
        IN IF ~IsResult(r) THEN c = r
           ELSE IF out.renderer = "text" THEN c = r.value
           ELSE IF out.renderer = "pdf" THEN c = r
           ELSE /\ IsAnchor(c) <=> (IF nonEmpty THEN NonEmpty(r.link) ELSE NotNone(r.link))
                /\ IsAnchor(c) => c.a_href = r.link /\ c.body = Body(out.renderer, r)
                /\ ~IsAnchor(c) => c = Bare(out.renderer, r)

GroupEvents(g, n, rs) ==
    [i \in 1..n |-> Event("load", g, i, None)]
    \o <<Event("pool", g, n, None)>>
    \o [k \in DOMAIN rs |-> Event("call", g, k, None) @@ [f |-> rs[k]]]
RECURSIVE ExpectedTrace(_, _)
ExpectedTrace(cf, rs) ==
    IF cf = <<>> THEN <<>>
    ELSE GroupEvents(Head(cf).name, Len(Head(cf).files), rs)
         \o ExpectedTrace(Tail(cf), rs)

\* C7: the groups are taken one at a time in the dict's order; in each, all
\* files are loaded and pooled before the first reporter runs, and every
\* reporter of the list runs exactly once, in list order, before the next
\* group's first file is loaded.
C7_SequentialOrder ==
    /\ pc \in {"groups", "load", "run", "done"} =>
          IsPrefix(trace, ExpectedTrace(chain_filenames, R))
    /\ pc = "done" => trace = ExpectedTrace(chain_filenames, R)

C7_Witness ==
    /\ pc = "done"
    /\ G = 2
    /\ Len(chain_filenames[1].files) = 2
    /\ Len(R) = 2 /\ R[1] # R[2]
    /\ Len(trace) = 9

\* what a renderer gives on the Report as __init__ left it
FreshRender(kind) ==
    CASE kind = "text" -> get_text_table(fresh.header_names, fresh.results).table
      [] kind = "pdf" ->
           write_pdf_table(fresh.header_names, fresh.results, "out.html").table
      [] kind = "html" ->
           write_html_table(fresh.header_names, fresh.results, "out.html").table
      [] OTHER ->
           write_html_table_with_links(fresh.header_names, fresh.results,
                                       "out.html").table

\* C8: after any renders, failed ones too, the Report is as __init__ left it
\* (reporter list, header, grid, every value and link), and the last output
\* is what that renderer gives on the fresh Report.
C8_RenderersReadOnly ==
    pc = "done" =>
        /\ Snapshot(chain_filenames, R, header_names, results) = fresh
        /\ out # NoOutput => out = FreshRender(out.renderer)

C8_Witness ==
    /\ pc = "done"
    /\ exc = "IOError"
    /\ out # NoOutput
    /\ out.renderer = "text"
    /\ Len(results) = 2

\* C9: later declarations leave every registered entry as it was: its place
\* in its module's list, its function and its display name.
C9_EntriesImmutable ==
    [][\A m \in Modules : \A i \in DOMAIN heap[m] :
          /\ i \in DOMAIN heap'[m]
          /\ heap'[m][i] = heap[m][i]
          /\ reporter_name'[heap[m][i]] = reporter_name[heap[m][i]]]_vars

\* the registry as a reader sees it
RegistryView == [m \in Modules |-> [present |-> reporter_dict[m] # None, list |-> heap[m]]]

====
